---- MODULE Spec2Model ----
(***************************************************************************)
(* Model of sandol/crawler/classroom_parser.py: LectureParser,             *)
(* RoomScheduler and LectureScheduleManager.                               *)
(*                                                                         *)
(* A Python str is modelled as the sequence of its Unicode code points, a  *)
(* datetime produced by strptime(..., '%H:%M') as the number of minutes    *)
(* since 00:00 of 1900-01-01, a timedelta as a number of minutes, a dict   *)
(* as a sequence of entries in insertion order and a pandas DataFrame as   *)
(* a record of its column labels and its rows.  None (and NaN) is the      *)
(* sequence <<-1>>, which is no str: -1 is no code point.  A value that    *)
(* may not exist yet (a file, a result) is the sequence of at most one     *)
(* element that holds it.                                                  *)
(***************************************************************************)
EXTENDS Integers, Sequences, FiniteSets, TLC

VARIABLES xlsx, scheduler, df, room_schedule, empty_rooms, csv, raised, calls,
          schedule_df, original, filter_calls, items, type, carousel_calls

\* classroom_parser.py: the input file, whether a RoomScheduler exists, its df
\* and room_schedule, the frame last returned, the output file, the error
\* last raised and the number of calls made
parserVars == <<xlsx, scheduler, df, room_schedule, empty_rooms, csv, raised, calls>>

\* classroom.py: df and _original of an EmptyRoomSchedule, and the calls made
\* on it since it was constructed, in order
classroomVars == <<schedule_df, original, filter_calls>>

\* component.py: items and type of a CarouselComponent, and the calls made on
\* it since it was constructed, in order, each with the error it raised
carouselVars == <<items, type, carousel_calls>>

vars == <<parserVars, classroomVars, carouselVars>>

None == <<-1>>

Nothing == <<>>
Some(x) == <<x>>

\* no EmptyRoomSchedule and no CarouselComponent exist
NoOthers ==
    /\ schedule_df = <<>> /\ original = <<>> /\ filter_calls = <<>>
    /\ items = <<>> /\ type = Nothing /\ carousel_calls = <<>>

(***************************************************************************)
(* Bounds of the model.                                                    *)
(***************************************************************************)
MaxRows == 1
MaxSegs == 3
MaxEntries == 3
MaxRecords == 2
MaxCalls == 2
MaxOps == 3
MaxCarouselOps == 4

(***************************************************************************)
(* str: literals (code points) and the str methods the code uses.          *)
(***************************************************************************)
Space == <<32>>
Comma == <<44>>
LParen == <<40>>
RParen == <<41>>

\* ["온라인", "미배정", "연구실"]
exclusion_keywords ==
    << <<50728, 46972, 51064>>, <<48120, 48176, 51221>>, <<50672, 44396, 49892>> >>

\* ['A동', 'B동', 'C동', 'D동', 'E동', 'F동', 'G동', '종합', 'TIP', '산융', '비즈']
buildings ==
    << <<65, 46041>>, <<66, 46041>>, <<67, 46041>>, <<68, 46041>>, <<69, 46041>>,
       <<70, 46041>>, <<71, 46041>>, <<51333, 54633>>, <<84, 73, 80>>,
       <<49328, 50997>>, <<48708, 51592>> >>

\* ['월', '화', '수', '목', '금', '토']
days == << <<50900>>, <<54868>>, <<49688>>, <<47785>>, <<44552>>, <<53664>> >>

Range(s) == {s[i] : i \in 1..Len(s)}

Min(a, b) == IF a < b THEN a ELSE b

\* a < b on str (code point order), as sort_values compares object columns
StrLt(a, b) ==
    \E i \in 1..(Min(Len(a), Len(b)) + 1) :
        /\ \A j \in 1..(i - 1) : a[j] = b[j]
        /\ \/ i > Len(a) /\ i <= Len(b)
           \/ i <= Len(a) /\ i <= Len(b) /\ a[i] < b[i]

\* s.startswith(p)
StartsWith(s, p) == Len(p) <= Len(s) /\ SubSeq(s, 1, Len(p)) = p

\* p in s
Contains(s, p) ==
    \E i \in 1..(Len(s) - Len(p) + 1) : SubSeq(s, i, i + Len(p) - 1) = p

\* s.strip()
RECURSIVE LStrip(_)
LStrip(s) == IF s # <<>> /\ Head(s) = 32 THEN LStrip(Tail(s)) ELSE s

RECURSIVE RStrip(_)
RStrip(s) ==
    IF s # <<>> /\ s[Len(s)] = 32 THEN RStrip(SubSeq(s, 1, Len(s) - 1)) ELSE s

Strip(s) == RStrip(LStrip(s))

\* s.split(','): the pieces between the separators, empty pieces included
RECURSIVE SplitFrom(_, _, _)
SplitFrom(s, sep, piece) ==
    IF s = <<>> THEN <<piece>>
    ELSE IF Head(s) = sep THEN <<piece>> \o SplitFrom(Tail(s), sep, <<>>)
    ELSE SplitFrom(Tail(s), sep, Append(piece, Head(s)))

Split(s) == SplitFrom(s, 44, <<>>)

\* s.replace(old, ''): every non-overlapping occurrence of old, left to right
RECURSIVE Replace(_, _)
Replace(s, old) ==
    IF s = <<>> THEN <<>>
    ELSE IF StartsWith(s, old) THEN Replace(SubSeq(s, Len(old) + 1, Len(s)), old)
    ELSE <<Head(s)>> \o Replace(Tail(s), old)

(***************************************************************************)
(* datetime: strptime(s, '%H:%M') and strftime('%H%M').                    *)
(***************************************************************************)
IsDigit(c) == c >= 48 /\ c <= 57

\* the text HH:MM of two two-digit numbers, as \d{2}:\d{2} matches it
TimeStr(hh, mm) ==
    <<48 + (hh \div 10), 48 + (hh % 10), 58, 48 + (mm \div 10), 48 + (mm % 10)>>

Hour(s) == (s[1] - 48) * 10 + (s[2] - 48)
Minute(s) == (s[4] - 48) * 10 + (s[5] - 48)

\* strptime raises ValueError unless the hour is 0..23 and the minute 0..59
StrptimeOk(s) ==
    /\ Len(s) = 5 /\ s[3] = 58
    /\ \A i \in {1, 2, 4, 5} : IsDigit(s[i])
    /\ Hour(s) <= 23 /\ Minute(s) <= 59

Strptime(s) == Hour(s) * 60 + Minute(s)

\* strftime('%H%M'): four zero-padded digits
Strftime(t) ==
    <<48 + ((t \div 60) \div 10), 48 + ((t \div 60) % 10),
      48 + ((t % 60) \div 10), 48 + ((t % 60) % 10)>>

operating_start == Strptime(TimeStr(9, 30))
operating_end == Strptime(TimeStr(22, 0))
min_free_duration == 30

(***************************************************************************)
(* LectureParser.  A description (the text of one cell of the column       *)
(* 강의시간) is the record of the day/time segments time_pattern finds in   *)
(* it, in order, and of the text that follows the last of them (suffix),   *)
(* in which room_pattern is searched: a segment holds no parenthesis.      *)
(***************************************************************************)
\* re.search(r'\((?P<room>.+)\)$', text): the leftmost '(' that is followed by
\* at least one character and then by a ')' ending the text
RoomMatchStarts(text) ==
    IF Len(text) >= 3 /\ text[Len(text)] = 41
    THEN {i \in 1..(Len(text) - 2) : text[i] = 40}
    ELSE {}

room_match(text) == RoomMatchStarts(text) # {}

room_info(text) ==
    LET i == CHOOSE k \in RoomMatchStarts(text) :
                 \A m \in RoomMatchStarts(text) : k <= m
    IN SubSeq(text, i + 1, Len(text) - 1)

\* any(keyword in room_info for keyword in ["온라인", "미배정", "연구실"])
HasExclusionKeyword(info) ==
    \E k \in 1..Len(exclusion_keywords) : Contains(info, exclusion_keywords[k])

\* the matches taken last to first
TimeTokensReversed(segs) ==
    [i \in 1..Len(segs) |->
        [day |-> segs[Len(segs) + 1 - i].day,
         start_time |-> segs[Len(segs) + 1 - i].start_time,
         end_time |-> segs[Len(segs) + 1 - i].end_time, room |-> None]]

\* the entries of result before the room list is looked at (lines 15-22)
TimeTokens(segs) ==
    [i \in 1..Len(segs) |->
        [day |-> segs[i].day, start_time |-> segs[i].start_time,
         end_time |-> segs[i].end_time, room |-> None]]

\* lines 29-31: entry['room_a'], entry['room_b']
WithRooms(entry, room_list) ==
    [day |-> entry.day, start_time |-> entry.start_time,
     end_time |-> entry.end_time, room |-> entry.room,
     room_a |-> Strip(room_list[1]),
     room_b |-> IF Len(room_list) > 1 THEN Strip(room_list[2]) ELSE None]

\* lines 32-33, inside the loop over result: reached only if result has an entry
RoomCountRaises(result, room_list) == result # <<>> /\ Len(room_list) > 2

\* lines 28-34: the room list is split, attached to every entry and counted
AttachRooms(result, room_list) ==
    IF RoomCountRaises(result, room_list)
    THEN [raised |-> "ValueError", result |-> <<>>]
    ELSE [raised |-> "none",
          result |-> [i \in 1..Len(result) |-> WithRooms(result[i], room_list)]]

\* the room list split and counted before the exclusion keywords are looked for
ParseRoomsCountFirst(result, text) ==
    IF ~room_match(text) THEN [raised |-> "none", result |-> result]
    ELSE IF RoomCountRaises(result, Split(room_info(text)))
         THEN [raised |-> "ValueError", result |-> <<>>]
    ELSE IF HasExclusionKeyword(room_info(text))
         THEN [raised |-> "none", result |-> <<>>]
    ELSE AttachRooms(result, Split(room_info(text)))

\* lines 23-34: the test of lines 26-27 comes before the split and the count
ParseRooms(result, text) ==
    IF ~room_match(text) THEN [raised |-> "none", result |-> result]
    ELSE IF HasExclusionKeyword(room_info(text))
         THEN [raised |-> "none", result |-> <<>>]
    ELSE AttachRooms(result, Split(room_info(text)))

parse_lecture_time(lecture_time) ==
    ParseRooms(TimeTokens(lecture_time.segs), lecture_time.suffix)

\* lines 41-47: parsed_time['room_a'] raises KeyError when the key was never set
NewRow(parsed_time) ==
    [Day |-> parsed_time.day, Free_From |-> parsed_time.start_time,
     Free_To |-> parsed_time.end_time, RoomA |-> parsed_time.room_a,
     RoomB |-> parsed_time.room_b]

HasRoomKeys(parsed_time) == "room_a" \in DOMAIN parsed_time

\* self.df.dropna(subset=['강의시간']) (line 9)
RECURSIVE DropNa(_)
DropNa(rows) ==
    IF rows = <<>> THEN <<>>
    ELSE IF Head(rows).suffix = None THEN DropNa(Tail(rows))
    ELSE <<Head(rows)>> \o DropNa(Tail(rows))

\* lines 40-47 for the tokens of one row: the rows they add, or the error
ExpandRow(p) ==
    IF p.raised # "none" THEN [raised |-> p.raised, rows |-> <<>>]
    ELSE IF p.result # <<>> /\ ~HasRoomKeys(p.result[1])
         THEN [raised |-> "KeyError", rows |-> <<>>]
    ELSE [raised |-> "none", rows |-> [k \in 1..Len(p.result) |-> NewRow(p.result[k])]]

\* the loop of lines 38-47 from row i on, expanded_rows being built so far
RECURSIVE ExpandFrom(_, _, _)
ExpandNext(rows, i, expanded_rows, e) ==
    IF e.raised # "none" THEN e
    ELSE ExpandFrom(rows, i + 1, expanded_rows \o e.rows)

ExpandFrom(rows, i, expanded_rows) ==
    IF i > Len(rows) THEN [raised |-> "none", rows |-> expanded_rows]
    ELSE ExpandNext(rows, i, expanded_rows, ExpandRow(parse_lecture_time(rows[i])))

\* LectureParser(file).expand_lecture_times(): the rows of the DataFrame returned
expand_lecture_times(file) == ExpandFrom(DropNa(file), 1, <<>>)

(***************************************************************************)
(* RoomScheduler.  room_schedule, a dict of dicts of dicts of lists, is    *)
(* the sequence of its buildings in insertion order, each with the         *)
(* sequence of its rooms in insertion order, each with its schedule: the   *)
(* function from the day keys present to the list of (start, end) pairs.   *)
(***************************************************************************)
\* self.room_schedule = {} (line 56)
EmptyDict == <<>>

\* the first of the matching positions, 0 when there is none
Index(hits) ==
    IF hits = {} THEN 0 ELSE CHOOSE i \in hits : \A j \in hits : i <= j

\* next((b for b in self.buildings if single_room.startswith(b)), None)
FindBuilding(single_room) ==
    LET i == Index({k \in 1..Len(buildings) : StartsWith(single_room, buildings[k])})
    IN IF i = 0 THEN None ELSE buildings[i]

\* single_room.replace(building, '').strip()
RoomNumber(single_room, building) == Strip(Replace(single_room, building))

IsBuilding(e, building) == e.building = building
IsRoom(e, room_number) == e.room_number = room_number

BuildingIndex(rs, building) ==
    Index({k \in 1..Len(rs) : IsBuilding(rs[k], building)})

RoomIndex(rooms, room_number) ==
    Index({k \in 1..Len(rooms) : IsRoom(rooms[k], room_number)})

\* lines 70-71
EnsureBuilding(rs, building) ==
    IF BuildingIndex(rs, building) = 0
    THEN Append(rs, [building |-> building, rooms |-> <<>>]) ELSE rs

\* lines 72-73
EnsureRoom(rooms, room_number) ==
    IF RoomIndex(rooms, room_number) = 0
    THEN Append(rooms, [room_number |-> room_number, schedule |-> <<>>]) ELSE rooms

\* lines 75-76
EnsureDay(schedule, day) ==
    IF day \in DOMAIN schedule THEN schedule ELSE schedule @@ (day :> <<>>)

\* line 85: self.room_schedule[building][room_number][day].append(...)
AppendAt(rs, bi, ri, day, booking) ==
    [rs EXCEPT ![bi].rooms[ri].schedule[day] = Append(@, booking)]

AppendBooking(rs, building, room_number, day, booking) ==
    AppendAt(rs, BuildingIndex(rs, building),
             RoomIndex(rs[BuildingIndex(rs, building)].rooms, room_number),
             day, booking)

EnsureInRooms(rooms, ri, day) == [rooms EXCEPT ![ri].schedule = EnsureDay(@, day)]

EnsureInBuilding(rooms, room_number, day) ==
    EnsureInRooms(rooms, RoomIndex(rooms, room_number), day)

EnsureAt(rs, bi, room_number, day) ==
    [rs EXCEPT ![bi].rooms =
        EnsureInBuilding(EnsureRoom(@, room_number), room_number, day)]

EnsureIn(rs, building, room_number, day) ==
    EnsureAt(rs, BuildingIndex(rs, building), room_number, day)

\* lines 70-76: the three "not in" tests, each creating the missing entry
EnsureKeys(rs, building, room_number, day) ==
    EnsureIn(EnsureBuilding(rs, building), building, room_number, day)

\* only the start time put through strptime before the booking is appended
TryAppendStartOnly(rs, building, room_number, row) ==
    IF StrptimeOk(row.Free_From)
    THEN AppendBooking(rs, building, room_number, row.Day,
                       <<Strptime(row.Free_From), Strptime(row.Free_To)>>)
    ELSE rs

\* lines 77-85: the booking is appended unless strptime raises ValueError
TryAppend(rs, building, room_number, row) ==
    IF StrptimeOk(row.Free_From) /\ StrptimeOk(row.Free_To)
    THEN AppendBooking(rs, building, room_number, row.Day,
                       <<Strptime(row.Free_From), Strptime(row.Free_To)>>)
    ELSE rs

\* the times put through strptime before any key is created
IndexKnownTimesFirst(rs, row, room_number, building) ==
    IF StrptimeOk(row.Free_From) /\ StrptimeOk(row.Free_To)
    THEN TryAppend(EnsureKeys(rs, building, room_number, row.Day),
                   building, room_number, row)
    ELSE rs

\* lines 69-85, the building being known
IndexKnown(rs, row, room_number, building) ==
    TryAppend(EnsureKeys(rs, building, room_number, row.Day),
              building, room_number, row)

\* a room of no recognized building indexed under the building ''
IndexStrippedAny(rs, row, single_room, building) ==
    IF building = None THEN IndexKnown(rs, row, single_room, <<>>)
    ELSE IndexKnown(rs, row, RoomNumber(single_room, building), building)

\* lines 66-85
IndexStripped(rs, row, single_room, building) ==
    IF building = None THEN rs
    ELSE IndexKnown(rs, row, RoomNumber(single_room, building), building)

\* lines 65-85 for one single_room of one row
IndexSingle(rs, row, single_room) ==
    IndexStripped(rs, row, single_room, FindBuilding(single_room))

IndexRoom(rs, row, piece) == IndexSingle(rs, row, Strip(piece))

RECURSIVE IndexPieces(_, _, _)
IndexPieces(rs, row, pieces) ==
    IF pieces = <<>> THEN rs
    ELSE IndexPieces(IndexRoom(rs, row, Head(pieces)), row, Tail(pieces))

\* lines 61-64 for one room_col: pd.isna(room) skips the column
IndexColumn(rs, row, room) ==
    IF room = None THEN rs ELSE IndexPieces(rs, row, Split(room))

\* line 60: for room_col in ['RoomA', 'RoomB']
IndexRow(rs, row) == IndexColumn(IndexColumn(rs, row, row.RoomA), row, row.RoomB)

\* extract_room_schedule: the rows of self.df in order, onto the index as it is
RECURSIVE extract_room_schedule(_, _)
extract_room_schedule(rs, rows) ==
    IF rows = <<>> THEN rs
    ELSE extract_room_schedule(IndexRow(rs, Head(rows)), Tail(rows))

\* booked_times.sort(key=lambda x: x[0]): stable, ascending by start
RECURSIVE InsertByStart(_, _)
InsertByStart(sorted, x) ==
    IF sorted = <<>> THEN <<x>>
    ELSE IF sorted[Len(sorted)][1] <= x[1] THEN Append(sorted, x)
    ELSE Append(InsertByStart(SubSeq(sorted, 1, Len(sorted) - 1), x),
                sorted[Len(sorted)])

RECURSIVE SortByStart(_)
SortByStart(booked) ==
    IF booked = <<>> THEN <<>>
    ELSE InsertByStart(SortByStart(SubSeq(booked, 1, Len(booked) - 1)),
                       booked[Len(booked)])

\* a strict comparison in place of >=
LongerThan(free_start, free_end) == free_end - free_start > min_free_duration

\* lines 108-109 and 115-116: duration >= min_free_duration
LongEnough(free_start, free_end) == free_end - free_start >= min_free_duration

\* current_time = end, without the max
AdvanceToEnd(current_time, end) == end

\* line 111: current_time = max(current_time, end)
Advance(current_time, end) == IF end > current_time THEN end ELSE current_time

\* lines 104-111, from the i-th booked time on
RECURSIVE Sweep(_, _, _, _)
Sweep(booked_times, i, current_time, free_times) ==
    IF i > Len(booked_times)
    THEN [current_time |-> current_time, free_times |-> free_times]
    ELSE LET start == booked_times[i][1]
             end == booked_times[i][2]
             found == IF current_time < start /\ LongEnough(current_time, start)
                      THEN Append(free_times, <<current_time, start>>)
                      ELSE free_times
         IN Sweep(booked_times, i + 1, Advance(current_time, end), found)

\* lines 112-117: the span from the last current_time to operating_end
Trailing(s) ==
    IF s.current_time < operating_end /\ LongEnough(s.current_time, operating_end)
    THEN Append(s.free_times, <<s.current_time, operating_end>>)
    ELSE s.free_times

\* a day without booked times skipped instead of given the whole window
FreeTimesSkipEmpty(booked_times) ==
    IF booked_times = <<>> THEN <<>>
    ELSE Trailing(Sweep(booked_times, 1, operating_start, <<>>))

\* lines 99-117, booked_times being sorted
FreeTimes(booked_times) ==
    IF booked_times = <<>> THEN << <<operating_start, operating_end>> >>
    ELSE Trailing(Sweep(booked_times, 1, operating_start, <<>>))

\* lines 119-125
EmptyRoomRow(building, room_number, day, free) ==
    [Building |-> building, Room_Number |-> room_number, Day |-> day,
     Free_From |-> Strftime(free[1]), Free_To |-> Strftime(free[2])]

\* schedule.get(day, []) then sort: the list of the index is sorted in place
BookedTimes(schedule, day) ==
    IF day \in DOMAIN schedule THEN SortByStart(schedule[day]) ELSE <<>>

SortedSchedule(schedule) ==
    [d \in DOMAIN schedule |->
        IF d \in Range(days) THEN SortByStart(schedule[d]) ELSE schedule[d]]

RECURSIVE Flatten(_)
Flatten(seqs) == IF seqs = <<>> THEN <<>> ELSE Head(seqs) \o Flatten(Tail(seqs))

\* lines 118-125 for one room and day
DayRows(building, room_number, day, free_times) ==
    [f \in 1..Len(free_times) |->
        EmptyRoomRow(building, room_number, day, free_times[f])]

\* lines 96-125 for one room: its rows, day by day in the order of self.days
RoomRows(building, room) ==
    Flatten([k \in 1..Len(days) |->
        DayRows(building, room.room_number, days[k],
                FreeTimes(BookedTimes(room.schedule, days[k])))])

\* lines 94-125: the rows appended to empty_rooms, in the order of the dicts
AllRows(rs) ==
    Flatten([b \in 1..Len(rs) |->
        Flatten([r \in 1..Len(rs[b].rooms) |->
            RoomRows(rs[b].building, rs[b].rooms[r])])])

\* the index as the loop leaves it
SortedIndex(rs) ==
    [b \in 1..Len(rs) |->
        [rs[b] EXCEPT !.rooms =
            [r \in 1..Len(rs[b].rooms) |->
                [rs[b].rooms[r] EXCEPT !.schedule = SortedSchedule(@)]]]]

\* pd.DataFrame(list of dicts): the columns are the keys of the dicts, so an
\* empty list makes a DataFrame without any column
EmptyRoomColumns == {"Building", "Room Number", "Day", "Free From", "Free To"}

DataFrame(rows) ==
    [columns |-> IF rows = <<>> THEN {} ELSE EmptyRoomColumns, rows |-> rows]

\* lines 89-127, the index being extracted
Found(extracted) ==
    [room_schedule |-> SortedIndex(extracted),
     empty_rooms |-> DataFrame(AllRows(extracted))]

\* find_empty_rooms on a scheduler whose index is rs and whose df has these rows
find_empty_rooms(rs, rows) == Found(extract_room_schedule(rs, rows))

\* sort_values(by=['Building', 'Room Number', 'Day', 'Free From', 'Free To'])
\* raises KeyError when the DataFrame has no such column
SortRaises(frame) == ~({"Building"} \subseteq frame.columns)

RowKey(row) == <<row.Building, row.Room_Number, row.Day, row.Free_From, row.Free_To>>

\* a < b on the key tuples, column by column
KeyLt(a, b) ==
    \E i \in 1..Len(a) : (\A j \in 1..(i - 1) : a[j] = b[j]) /\ StrLt(a[i], b[i])

RECURSIVE InsertByKey(_, _)
InsertByKey(sorted, x) ==
    IF sorted = <<>> THEN <<x>>
    ELSE IF ~KeyLt(RowKey(x), RowKey(sorted[Len(sorted)])) THEN Append(sorted, x)
    ELSE Append(InsertByKey(SubSeq(sorted, 1, Len(sorted) - 1), x),
                sorted[Len(sorted)])

RECURSIVE SortValues(_)
SortValues(rows) ==
    IF rows = <<>> THEN <<>>
    ELSE InsertByKey(SortValues(SubSeq(rows, 1, Len(rows) - 1)), rows[Len(rows)])

\* to_csv(..., mode='a'): the rows added to those the file holds
ToCsvAppend(old, frame) ==
    IF old = Nothing THEN Some(frame)
    ELSE Some([columns |-> frame.columns, rows |-> old[1].rows \o frame.rows])

\* empty_rooms_df.to_csv(output_file, index=False): the file is written anew
ToCsv(old, frame) == Some(frame)

\* the frame written in the order find_empty_rooms built it
WriteUnsorted(frame, old) == [frame |-> frame, old |-> old]

\* lines 131-132: the frame is sorted in place, then written
SortAndWrite(frame, old) ==
    [frame |-> [columns |-> frame.columns, rows |-> SortValues(frame.rows)],
     old |-> old]

Written(sw) == [empty_rooms |-> sw.frame, csv |-> ToCsv(sw.old, sw.frame)]

Saved(found, old) ==
    IF SortRaises(found.empty_rooms)
    THEN [room_schedule |-> found.room_schedule,
          empty_rooms |-> found.empty_rooms, csv |-> old, raised |-> "KeyError"]
    ELSE [room_schedule |-> found.room_schedule, raised |-> "none"]
         @@ Written(SortAndWrite(found.empty_rooms, old))

\* save_empty_rooms_to_csv on a scheduler whose index is rs and whose df has
\* these rows, the output file holding old
save_empty_rooms_to_csv(rs, rows, old) == Saved(find_empty_rooms(rs, rows), old)

(***************************************************************************)
(* The inputs.  Descriptions are built from up to MaxSegs successive        *)
(* segments of a fixed list of day/time segments (the third has a minute   *)
(* of 60, the fourth a day that is none of self.days) and from a room list *)
(* of up to MaxEntries entries, one of which may be an exclusion keyword.  *)
(***************************************************************************)
Mon == days[1]
Tue == days[2]

\* '일', a day that \w+ matches and self.days does not hold
Sun == <<51068>>

SegSource ==
    << [day |-> Mon, start_time |-> TimeStr(9, 0), end_time |-> TimeStr(10, 15)],
       [day |-> Mon, start_time |-> TimeStr(10, 0), end_time |-> TimeStr(12, 0)],
       [day |-> Tue, start_time |-> TimeStr(9, 0), end_time |-> TimeStr(10, 60)],
       [day |-> Sun, start_time |-> TimeStr(13, 0), end_time |-> TimeStr(14, 0)] >>

SegLists ==
    {SubSeq(SegSource, w[1], w[1] + w[2] - 1) :
        w \in {v \in (1..Len(SegSource)) \X (0..MaxSegs) :
                  v[1] + v[2] - 1 <= Len(SegSource)}}

\* "B동201", "X101", "A동101"
RoomSource ==
    << <<66, 46041, 50, 48, 49>>, <<88, 49, 48, 49>>, <<65, 46041, 49, 48, 49>> >>

RoomName(j) == RoomSource[((j - 1) % Len(RoomSource)) + 1]

Keyword(j) == exclusion_keywords[((j - 1) % Len(exclusion_keywords)) + 1]

\* k entries, the kw-th being an exclusion keyword (kw = 0: none), the others
\* the rooms of RoomSource in turn
Entries(k, kw) == [j \in 1..k |-> IF j = kw THEN Keyword(j) ELSE RoomName(j)]

RECURSIVE Join(_)
Join(entries) ==
    IF entries = <<>> THEN <<>>
    ELSE IF Len(entries) = 1 THEN entries[1]
    ELSE entries[1] \o Comma \o Space \o Join(Tail(entries))

\* " (room, room)", or no room list at all when there is no entry
Suffix(entries) ==
    IF entries = <<>> THEN <<>> ELSE Space \o LParen \o Join(entries) \o RParen

EntryLists == {Entries(k, kw) : k \in 0..MaxEntries, kw \in 0..MaxEntries}

\* an empty cell of the column
NaN == [segs |-> <<>>, suffix |-> None]

\* "B201", "B202"
PlainRooms == << <<66, 50, 48, 49>>, <<66, 50, 48, 50>> >>

\* "월[1~2] 09:00~10:15 (B201, B202)"
PlainExample == [segs |-> <<SegSource[1]>>, suffix |-> Suffix(PlainRooms)]

\* "월[3~4] 10:00~12:00 (B동201, A동101)"
TwoBuildings ==
    [segs |-> <<SegSource[2]>>,
     suffix |-> Suffix(<<RoomSource[1], RoomSource[3]>>)]

\* "A동1A동2": the name of the building once more after the prefix
RoomNameTwice == <<65, 46041, 49, 65, 46041, 50>>

\* "월[1~2] 09:00~10:15 (A동1A동2)"
NameTwice == [segs |-> <<SegSource[1]>>, suffix |-> Suffix(<<RoomNameTwice>>)]

Descriptions ==
    {[segs |-> sg, suffix |-> Suffix(es)] : sg \in SegLists, es \in EntryLists}
    \cup {NaN, PlainExample, TwoBuildings, NameTwice}

RECURSIVE SeqsUpTo(_, _)
SeqsUpTo(S, n) ==
    IF n = 0 THEN {<<>>}
    ELSE LET shorter == SeqsUpTo(S, n - 1)
         IN shorter \cup {Append(q, x) : q \in shorter, x \in S}

Inputs == SeqsUpTo(Descriptions, MaxRows)

\* the times of the records a RoomScheduler is constructed with directly
TimePool ==
    {TimeStr(9, 0), TimeStr(10, 0), TimeStr(10, 29), TimeStr(10, 30),
     TimeStr(22, 30), TimeStr(23, 0)}

RecordPool ==
    {[Day |-> Mon, Free_From |-> f, Free_To |-> t, RoomA |-> RoomSource[3],
      RoomB |-> None] : f \in TimePool, t \in TimePool}

\* "A동101" is RoomSource[3]

Frames == SeqsUpTo(RecordPool, MaxRecords) \ {<<>>}

(***************************************************************************)
(* The state machine.                                                      *)
(***************************************************************************)
\* An input file that no scheduler was made of yet.
Init ==
    /\ xlsx \in Inputs
    /\ scheduler = FALSE
    /\ df = <<>>
    /\ room_schedule = EmptyDict
    /\ empty_rooms = Nothing
    /\ csv = Nothing
    /\ raised = "none"
    /\ calls = 0
    /\ NoOthers

\* A RoomScheduler constructed with a DataFrame of expanded records (lines 52-56).
InitFrames ==
    /\ xlsx = <<>>
    /\ scheduler = TRUE
    /\ df \in Frames
    /\ room_schedule = EmptyDict
    /\ empty_rooms = Nothing
    /\ csv = Nothing
    /\ raised = "none"
    /\ calls = 0
    /\ NoOthers

\* RoomScheduler(LectureParser(input_file).expand_lecture_times()), lines 142-146
Constructed(expanded) ==
    /\ raised' = expanded.raised
    /\ scheduler' = (expanded.raised = "none")
    /\ df' = expanded.rows

NewScheduler ==
    /\ ~scheduler /\ calls = 0 /\ raised = "none"
    /\ Constructed(expand_lecture_times(xlsx))
    /\ room_schedule' = EmptyDict
    /\ UNCHANGED <<xlsx, empty_rooms, csv, calls, classroomVars, carouselVars>>

FoundResult(found) ==
    /\ room_schedule' = found.room_schedule
    /\ empty_rooms' = Some(found.empty_rooms)

\* scheduler.find_empty_rooms()
FindEmptyRooms ==
    /\ scheduler /\ calls < MaxCalls
    /\ FoundResult(find_empty_rooms(room_schedule, df))
    /\ raised' = "none"
    /\ calls' = calls + 1
    /\ UNCHANGED <<xlsx, scheduler, df, csv, classroomVars, carouselVars>>

SavedResult(saved) ==
    /\ room_schedule' = saved.room_schedule
    /\ empty_rooms' = Some(saved.empty_rooms)
    /\ csv' = saved.csv
    /\ raised' = saved.raised

\* scheduler.save_empty_rooms_to_csv(output_file)
SaveEmptyRoomsToCsv ==
    /\ scheduler /\ calls < MaxCalls
    /\ SavedResult(save_empty_rooms_to_csv(room_schedule, df, csv))
    /\ calls' = calls + 1
    /\ UNCHANGED <<xlsx, scheduler, df, classroomVars, carouselVars>>

\* lines 142-147, the parser having expanded the rows or raised
Processed(expanded) ==
    IF expanded.raised # "none"
    THEN /\ raised' = expanded.raised
         /\ df' = <<>>
         /\ room_schedule' = EmptyDict
         /\ empty_rooms' = Nothing
         /\ csv' = csv
    ELSE /\ df' = expanded.rows
         /\ SavedResult(save_empty_rooms_to_csv(EmptyDict, expanded.rows, csv))

\* LectureScheduleManager(input_file, output_file).process(): a parser and a
\* scheduler of its own, which are gone when it returns or raises; df,
\* room_schedule and empty_rooms keep what they held at that moment
Process ==
    /\ ~scheduler /\ calls < MaxCalls
    /\ Processed(expand_lecture_times(xlsx))
    /\ calls' = calls + 1
    /\ UNCHANGED <<xlsx, scheduler, classroomVars, carouselVars>>

Next == NewScheduler \/ FindEmptyRooms \/ SaveEmptyRoomsToCsv \/ Process

Spec == Init /\ [][Next]_vars

\* find_empty_rooms called on a scheduler made of any frame of expanded records
NextFrames == FindEmptyRooms

SpecFrames == InitFrames /\ [][NextFrames]_vars

(***************************************************************************)
(* EmptyRoomSchedule (classroom.py).  The DataFrame read from the file is  *)
(* the sequence of its rows, each with its label (index) and with the      *)
(* columns of digits read as int.  A copy of a frame is the frame itself:  *)
(* values are never changed in place here, df[condition] is a new frame.   *)
(***************************************************************************)
\* a column of digits as pd.read_csv reads it: the int of its decimal digits
RECURSIVE ToInt(_)
ToInt(t) ==
    IF t = <<>> THEN 0 ELSE ToInt(SubSeq(t, 1, Len(t) - 1)) * 10 + (t[Len(t)] - 48)

ReadRow(i, row) ==
    [index |-> i - 1, Building |-> row.Building,
     Room_Number |-> ToInt(row.Room_Number), Day |-> row.Day,
     Free_From |-> ToInt(row.Free_From), Free_To |-> ToInt(row.Free_To)]

\* pd.read_csv(path)
load_classroom_file(file) == [i \in 1..Len(file.rows) |-> ReadRow(i, file.rows[i])]

\* "if building:": None and '' are not a building to filter by
Truthy(building) == building # None /\ building # <<>>

\* lines 100-107 for one row
Condition(row, call) ==
    /\ row.Day = call.day
    /\ row.Free_From <= call.from_time
    /\ row.Free_To >= call.to_time
    /\ Truthy(call.building) => row.Building = call.building

\* frame[condition]
Select(frame, call) ==
    LET Keep(row) == Condition(row, call) IN SelectSeq(frame, Keep)

\* the rows dropped from the frame _original as well
FilterShared(current, orig, call) ==
    [df |-> Select(current, call), original |-> Select(orig, call)]

\* the condition taken on _original instead of self.df
FilterOriginal(current, orig, call) ==
    [df |-> Select(orig, call), original |-> orig]

\* filter_classrooms(day, from_time, to_time, building): lines 100-110
filter_classrooms(current, orig, call) ==
    [df |-> Select(current, call), original |-> orig]

\* restore_classrooms(): self.df = self._original.copy()
restore_classrooms(current, orig) == [df |-> orig, original |-> orig]

\* the rows a file of empty rooms may hold
FilePool ==
    << EmptyRoomRow(buildings[1], <<49, 48, 49>>, Mon, <<operating_start, operating_end>>),
       EmptyRoomRow(buildings[2], <<50, 48, 49>>, Mon, <<operating_start, 720>>),
       EmptyRoomRow(buildings[2], <<50, 48, 49>>, Mon, <<720, operating_end>>),
       EmptyRoomRow(buildings[2], <<50, 48, 49>>, Tue, <<operating_start, operating_end>>) >>

\* the files save_empty_rooms_to_csv may have written with these rows
Files ==
    {DataFrame(SortValues(SelectSeq(FilePool, LAMBDA row : row \in chosen))) :
        chosen \in SUBSET Range(FilePool)}

\* the arguments filter_classrooms is called with
FilterCalls ==
    {[op |-> "filter", day |-> d, from_time |-> w[1], to_time |-> w[2], building |-> b] :
        d \in {Mon, Tue}, w \in {<<930, 1200>>, <<1200, 2200>>},
        b \in {None, buildings[2]}}
    \cup {[op |-> "filter", day |-> Mon, from_time |-> 930, to_time |-> 1200,
           building |-> <<>>]}

RestoreCall ==
    [op |-> "restore", day |-> None, from_time |-> 0, to_time |-> 0, building |-> None]

\* EmptyRoomSchedule(path) on a file of empty rooms: lines 55-56
InitClassroom ==
    /\ xlsx = <<>> /\ scheduler = FALSE /\ df = <<>>
    /\ room_schedule = EmptyDict /\ empty_rooms = Nothing
    /\ csv \in {Some(f) : f \in Files}
    /\ raised = "none" /\ calls = 0
    /\ schedule_df = load_classroom_file(csv[1])
    /\ original = load_classroom_file(csv[1])
    /\ filter_calls = <<>>
    /\ items = <<>> /\ type = Nothing /\ carousel_calls = <<>>

Filtered(result, call) ==
    /\ schedule_df' = result.df
    /\ original' = result.original
    /\ filter_calls' = Append(filter_calls, call)

FilterClassrooms ==
    /\ Len(filter_calls) < MaxOps
    /\ \E call \in FilterCalls :
          Filtered(filter_classrooms(schedule_df, original, call), call)
    /\ UNCHANGED <<parserVars, carouselVars>>

RestoreClassrooms ==
    /\ Len(filter_calls) < MaxOps
    /\ Filtered(restore_classrooms(schedule_df, original), RestoreCall)
    /\ UNCHANGED <<parserVars, carouselVars>>

NextClassroom == FilterClassrooms \/ RestoreClassrooms

SpecClassroom == InitClassroom /\ [][NextClassroom]_vars

(***************************************************************************)
(* CarouselComponent (component.py).  A component is the record of its     *)
(* class and of its identity (two components are equal when they are the   *)
(* same object); type is the class recorded, Nothing for None.             *)
(***************************************************************************)
\* classes of components that can be made
Classes == {"TextCardComponent", "BasicCard"}

\* the classes a class is or inherits from (lines 287, 402, 489)
Mro(cls) == {cls, "ParentCardComponent", "ParentComponent", "object"}

\* isinstance(item, cls)
IsInstance(item, cls) == cls \in Mro(item.cls)

\* the components there are to add and to remove
Components == {[cls |-> c, id |-> i] : c \in Classes, i \in {1, 2}}

\* is_empty: not bool(self.items)
is_empty(its) == its = <<>>

\* add_item without the assertions
AddItemUnchecked(its, ty, item) ==
    [items |-> Append(its, item),
     type |-> IF is_empty(its) THEN Some(item.cls) ELSE ty, raised |-> "none"]

\* add_item(item): lines 106-114
add_item(its, ty, item) ==
    IF is_empty(its)
    THEN [items |-> Append(its, item), type |-> Some(item.cls), raised |-> "none"]
    ELSE IF ty = Nothing \/ ~IsInstance(item, ty[1])
         THEN [items |-> its, type |-> ty, raised |-> "AssertionError"]
    ELSE [items |-> Append(its, item), type |-> ty, raised |-> "none"]

\* the place of the first element of the list equal to the item, 0 if none
FirstEqual(its, item) == Index({k \in 1..Len(its) : its[k] = item})

RemoveAt(its, k) == SubSeq(its, 1, k - 1) \o SubSeq(its, k + 1, Len(its))

\* remove_item(item): self.items.remove(item), ValueError if it is not there
remove_item(its, ty, item) ==
    IF FirstEqual(its, item) = 0
    THEN [items |-> its, type |-> ty, raised |-> "ValueError"]
    ELSE [items |-> RemoveAt(its, FirstEqual(its, item)), type |-> ty, raised |-> "none"]

\* CarouselComponent(): lines 78-81 without items
InitCarousel ==
    /\ xlsx = <<>> /\ scheduler = FALSE /\ df = <<>>
    /\ room_schedule = EmptyDict /\ empty_rooms = Nothing /\ csv = Nothing
    /\ raised = "none" /\ calls = 0
    /\ schedule_df = <<>> /\ original = <<>> /\ filter_calls = <<>>
    /\ items = <<>> /\ type = Nothing /\ carousel_calls = <<>>

Called(result, op, item) ==
    /\ items' = result.items
    /\ type' = result.type
    /\ carousel_calls' =
          Append(carousel_calls, [op |-> op, item |-> item, raised |-> result.raised])

AddItem ==
    /\ Len(carousel_calls) < MaxCarouselOps
    /\ \E item \in Components : Called(add_item(items, type, item), "add", item)
    /\ UNCHANGED <<parserVars, classroomVars>>

RemoveItem ==
    /\ Len(carousel_calls) < MaxCarouselOps
    /\ \E item \in Components : Called(remove_item(items, type, item), "remove", item)
    /\ UNCHANGED <<parserVars, classroomVars>>

NextCarousel == AddItem \/ RemoveItem

SpecCarousel == InitCarousel /\ [][NextCarousel]_vars

(***************************************************************************)
(* What the properties speak of.                                           *)
(***************************************************************************)
\* the minutes since 00:00 that a text HHMM stands for
FromHHMM(t) == ((t[1] - 48) * 10 + (t[2] - 48)) * 60 + (t[3] - 48) * 10 + (t[4] - 48)

\* find_empty_rooms has returned (alone or within save_empty_rooms_to_csv)
HasResult == empty_rooms # Nothing

ResultRows == empty_rooms[1].rows

\* the rooms of the index, as pairs of positions (building, room)
IndexedRooms ==
    UNION {{<<b, r>> : r \in 1..Len(room_schedule[b].rooms)} :
              b \in 1..Len(room_schedule)}

BuildingAt(p) == room_schedule[p[1]].building
RoomAt(p) == room_schedule[p[1]].rooms[p[2]]

\* the booked list of the index for a room and a day ([] when there is none)
BookedOf(p, day) ==
    IF day \in DOMAIN RoomAt(p).schedule THEN RoomAt(p).schedule[day] ELSE <<>>

\* the rows emitted for a room and a day, in the order of the result
EmittedRowsOf(p, day) ==
    LET Mine(row) == /\ row.Building = BuildingAt(p)
                     /\ row.Room_Number = RoomAt(p).room_number
                     /\ row.Day = day
    IN SelectSeq(ResultRows, Mine)

Interval(row) == <<FromHHMM(row.Free_From), FromHHMM(row.Free_To)>>

Intervals(rows) == [k \in 1..Len(rows) |-> Interval(rows[k])]

\* the free intervals emitted for a room and a day, in minutes
EmittedOf(p, day) == Intervals(EmittedRowsOf(p, day))

\* [a, b) and [c, d) share an instant
SharesInstant(a, b, c, d) == \E t \in {a, c} : a <= t /\ t < b /\ c <= t /\ t < d

SetMax(S) == CHOOSE x \in S : \A y \in S : y <= x

\* where the sweep stands before the i-th booked interval of a sorted list:
\* operating_start or the latest end seen so far
CursorBefore(booked, i) ==
    SetMax({operating_start} \cup {booked[j][2] : j \in 1..(i - 1)})

\* the recognized weekdays, as a set
Weekdays == Range(days)

\* two booked intervals of a list, at different places, that share an instant
OverlappingPairs(booked) ==
    {q \in (1..Len(booked)) \X (1..Len(booked)) :
        /\ q[1] # q[2]
        /\ SharesInstant(booked[q[1]][1], booked[q[1]][2],
                         booked[q[2]][1], booked[q[2]][2])}

(***************************************************************************)
(* The free intervals of find_empty_rooms (specification SpecFrames).      *)
(***************************************************************************)
\* C1: no free interval emitted for a building, room and day shares an instant
\* with a booked interval of the same building, room and day.
C1_NoFreeOverlapsBooked ==
    HasResult =>
        \A p \in IndexedRooms : \A day \in Weekdays :
            \A f \in Range(EmittedOf(p, day)) : \A b \in Range(BookedOf(p, day)) :
                ~SharesInstant(f[1], f[2], b[1], b[2])

\* C1 witness: a day whose booked intervals overlap (nested, duplicated or
\* partly) and for which a free interval was emitted
C1_Witness ==
    /\ HasResult
    /\ \E p \in IndexedRooms : \E day \in Weekdays :
          /\ OverlappingPairs(BookedOf(p, day)) # {}
          /\ \E q \in OverlappingPairs(BookedOf(p, day)) :
                BookedOf(p, day)[q[1]] # BookedOf(p, day)[q[2]]
          /\ EmittedOf(p, day) # <<>>

\* every booked interval of the list has its start before its end
Proper(booked) == \A k \in 1..Len(booked) : booked[k][1] < booked[k][2]

\* C2 as claimed, on the days whose booked intervals all have their start before
\* their end: every free interval emitted lies within 09:30-22:00.
C2_FreeWithinWindow ==
    HasResult =>
        \A p \in IndexedRooms : \A day \in Weekdays :
            Proper(BookedOf(p, day)) =>
                \A f \in Range(EmittedOf(p, day)) :
                    f[1] >= operating_start /\ f[2] <= operating_end

\* C3: every free interval emitted lasts at least 30 minutes, and every span
\* the sweep considers (from where it stands to the next booked start, or to
\* 22:00 at the end) that lasts at least 30 minutes is emitted.
C3_MinDuration ==
    HasResult =>
        \A p \in IndexedRooms : \A day \in Weekdays :
            LET booked == BookedOf(p, day)
                emitted == Range(EmittedOf(p, day))
                last == CursorBefore(booked, Len(booked) + 1)
            IN /\ \A f \in emitted : f[2] - f[1] >= 30
               /\ \A i \in 1..Len(booked) :
                     booked[i][1] - CursorBefore(booked, i) >= 30
                        => <<CursorBefore(booked, i), booked[i][1]>> \in emitted
               /\ operating_end - last >= 30 => <<last, operating_end>> \in emitted

\* C3 witness: a span of exactly 30 minutes was emitted and one of 29 was not
C3_Witness ==
    /\ HasResult
    /\ \E p \in IndexedRooms : \E day \in Weekdays :
          LET booked == BookedOf(p, day)
              emitted == Range(EmittedOf(p, day))
          IN /\ \E f \in emitted : f[2] - f[1] = 30
             /\ \E i \in 1..Len(booked) :
                   /\ booked[i][1] - CursorBefore(booked, i) = 29
                   /\ <<CursorBefore(booked, i), booked[i][1]>> \notin emitted

\* C5: replacing two booked intervals of a day that share an instant by their
\* union leaves the free intervals of the day as they were emitted: wherever
\* of the two places the union is put when every booked interval of the day
\* has its start before its end, and with the union put where the one that
\* starts first stood whatever the other records of the day are.
Union(x, y) == <<Min(x[1], y[1]), IF x[2] > y[2] THEN x[2] ELSE y[2]>>

Merged(booked, i, j) ==
    LET replaced == [booked EXCEPT ![i] = Union(booked[i], booked[j])]
    IN SubSeq(replaced, 1, j - 1) \o SubSeq(replaced, j + 1, Len(replaced))

StartsFirst(booked, i, j) ==
    booked[i][1] < booked[j][1] \/ (booked[i][1] = booked[j][1] /\ i < j)

C5_OverlapTolerance ==
    HasResult =>
        \A p \in IndexedRooms : \A day \in Weekdays :
            \A q \in OverlappingPairs(BookedOf(p, day)) :
                (StartsFirst(BookedOf(p, day), q[1], q[2]) \/ Proper(BookedOf(p, day)))
                    => FreeTimes(SortByStart(Merged(BookedOf(p, day), q[1], q[2])))
                           = EmittedOf(p, day)

\* C5 witness: a day with two different booked intervals that share an instant,
\* neither of which is their union, measured against its emitted intervals
C5_Witness ==
    /\ HasResult
    /\ \E p \in IndexedRooms : \E day \in Weekdays :
          LET booked == BookedOf(p, day)
          IN \E q \in OverlappingPairs(booked) :
                /\ Union(booked[q[1]], booked[q[2]]) \notin {booked[q[1]], booked[q[2]]}
                /\ EmittedOf(p, day) # <<>>

\* C6 as claimed, on the days whose booked intervals all have their start before
\* their end: every maximal span of 09:30-22:00 that no booked interval covers
\* and that lasts at least 30 minutes is emitted as exactly one free interval
\* with the same endpoints.
Uncovered(booked, a, b) ==
    \A k \in 1..Len(booked) : ~SharesInstant(a, b, booked[k][1], booked[k][2])

SpanEnds(booked) ==
    {operating_start, operating_end} \cup
    {t \in {booked[k][1] : k \in 1..Len(booked)} \cup {booked[k][2] : k \in 1..Len(booked)} :
        operating_start < t /\ t < operating_end}

MaximalSpans(booked) ==
    {sp \in SpanEnds(booked) \X SpanEnds(booked) :
        /\ sp[1] < sp[2]
        /\ Uncovered(booked, sp[1], sp[2])
        /\ sp[1] = operating_start \/ ~Uncovered(booked, sp[1] - 1, sp[1])
        /\ sp[2] = operating_end \/ ~Uncovered(booked, sp[2], sp[2] + 1)}

C6_Coverage ==
    HasResult =>
        \A p \in IndexedRooms : \A day \in Weekdays :
            \A sp \in MaximalSpans(BookedOf(p, day)) :
                (Proper(BookedOf(p, day)) /\ sp[2] - sp[1] >= 30) =>
                    Cardinality({k \in 1..Len(EmittedOf(p, day)) :
                                    EmittedOf(p, day)[k] = sp}) = 1

(***************************************************************************)
(* The pipeline (specification Spec).                                      *)
(***************************************************************************)
\* "0930" and "2200"
FullWindowFrom == <<48, 57, 51, 48>>
FullWindowTo == <<50, 50, 48, 48>>

\* C4: for every room of the index and every recognized weekday whose booked
\* list is empty or missing, exactly one row is emitted, from 0930 to 2200.
C4_EmptyDayFullWindow ==
    HasResult =>
        \A p \in IndexedRooms : \A day \in Weekdays :
            BookedOf(p, day) = <<>> =>
                EmittedRowsOf(p, day) =
                    << [Building |-> BuildingAt(p), Room_Number |-> RoomAt(p).room_number,
                        Day |-> day, Free_From |-> FullWindowFrom,
                        Free_To |-> FullWindowTo] >>

\* C4 witness: a room with a day that is in its schedule with an empty list and
\* a day that is not in its schedule, after find_empty_rooms
C4_Witness ==
    /\ HasResult
    /\ \E p \in IndexedRooms :
          /\ \E day \in Weekdays :
                day \in DOMAIN RoomAt(p).schedule /\ BookedOf(p, day) = <<>>
          /\ \E day \in Weekdays : day \notin DOMAIN RoomAt(p).schedule
          /\ \E day \in Weekdays : BookedOf(p, day) # <<>>

\* process() has run (once or more), and nothing else
Ran == ~scheduler /\ calls >= 1

\* C7: process() run again on the same input leaves the output file with the
\* same rows in the same order, and ends the same way.
C7_Idempotent == [][(Process /\ Ran) => (csv' = csv /\ raised' = raised)]_vars

\* C7 witness: process() has run twice and the file holds rows
C7_Witness == ~scheduler /\ calls >= 2 /\ csv # Nothing /\ csv[1].rows # <<>>

\* C8 as claimed: on an input without rows process() ends without an error and
\* an empty table is written.
C8_EmptyInput ==
    (Ran /\ xlsx = <<>>) =>
        (raised = "none" /\ csv # Nothing /\ csv[1].rows = <<>>)

\* the parser has been run over the rows of the input, and nothing else yet
Expanded == calls = 0 /\ (scheduler \/ raised # "none")

\* the room list of the description has k room entries and no exclusion keyword
RoomListOf(d, k) == d.suffix = Suffix(Entries(k, 0))

\* the room list has an exclusion keyword among its entries
Excluded(d) ==
    \E k \in 1..MaxEntries : \E kw \in 1..k : d.suffix = Suffix(Entries(k, kw))

\* C9 as claimed: a description whose room list has three or more entries and
\* no exclusion keyword makes the parser raise ValueError, whatever the number
\* of its day/time segments.
C9_ThreeRoomsRaise ==
    (Expanded /\ xlsx # <<>> /\ \E k \in 3..MaxEntries : RoomListOf(xlsx[1], k))
        => raised = "ValueError"

\* the records the rows must expand to when none of them raises: one for each
\* segment of each row that is not excluded
RECURSIVE ExpectedRecords(_)
ExpectedRecords(rows) ==
    IF rows = <<>> THEN 0
    ELSE (IF Head(rows) = NaN \/ Excluded(Head(rows)) THEN 0 ELSE Len(Head(rows).segs))
         + ExpectedRecords(Tail(rows))

\* C10: a description whose room list holds an exclusion keyword is parsed to
\* an empty list without an error, and adds no expanded record, whatever the
\* numbers of its segments and of its entries.
C10_ExclusionYieldsNothing ==
    /\ \A i \in 1..Len(xlsx) :
          Excluded(xlsx[i]) =>
              parse_lecture_time(xlsx[i]) = [raised |-> "none", result |-> <<>>]
    /\ (Expanded /\ scheduler) => Len(df) = ExpectedRecords(xlsx)
    /\ (Expanded /\ \A i \in 1..Len(xlsx) : Excluded(xlsx[i])) => scheduler

\* C10 witness: the rows were expanded to nothing, one of them having two
\* segments and a room list of three entries with an exclusion keyword
C10_Witness ==
    /\ Expanded /\ scheduler /\ df = <<>>
    /\ \E i \in 1..Len(xlsx) :
          /\ Len(xlsx[i].segs) >= 2
          /\ \E kw \in 1..3 : xlsx[i].suffix = Suffix(Entries(3, kw))

(***************************************************************************)
(* The expanded records and the index (specifications Spec and SpecFrames).*)
(***************************************************************************)
\* the description has no parenthesized room list after its segments
NoRoomList(d) == d # NaN /\ d.suffix = <<>>

\* the day/time segments of the rows, all together
RECURSIVE SegCount(_)
SegCount(rows) ==
    IF rows = <<>> THEN 0 ELSE Len(Head(rows).segs) + SegCount(Tail(rows))

\* C11 as claimed: descriptions with day/time segments and no room list are
\* expanded without an error to one record per segment, RoomA and RoomB null,
\* and the index builder adds nothing for them.
C11_NoRoomListFlows ==
    /\ (Expanded /\ \A i \in 1..Len(xlsx) : NoRoomList(xlsx[i])) =>
          /\ scheduler /\ raised = "none"
          /\ Len(df) = SegCount(xlsx)
          /\ \A k \in 1..Len(df) : df[k].RoomA = None /\ df[k].RoomB = None
    /\ (HasResult /\ \A i \in 1..Len(xlsx) : NoRoomList(xlsx[i])) =>
          room_schedule = EmptyDict

\* "201", "202"
PlainNumbers == { <<50, 48, 49>>, <<50, 48, 50>> }

\* C12 as claimed: the description "월[1~2] 09:00~10:15 (B201, B202)", parsed
\* and indexed, gives a booking of 09:00-10:15 on 월 for room 201 and one for
\* room 202, both of the building B.
C12_PlainExample ==
    (HasResult /\ xlsx = <<PlainExample>>) =>
        \A n \in PlainNumbers : \E q \in IndexedRooms :
            /\ StartsWith(BuildingAt(q), <<66>>)
            /\ RoomAt(q).room_number = n
            /\ BookedOf(q, Mon) = << <<Strptime(TimeStr(9, 0)), Strptime(TimeStr(10, 15))>> >>

\* find_empty_rooms has run once on the scheduler that holds the index
FirstCall == HasResult /\ (scheduler => calls = 1)

\* the rooms named in one column of a record, stripped
RoomsIn(room) ==
    IF room = None THEN <<>> ELSE [j \in 1..Len(Split(room)) |-> Strip(Split(room)[j])]

\* the (room, record) pairs of a frame in the order the loops of lines 59-64
\* visit them
PairsOfRow(row) ==
    [j \in 1..Len(RoomsIn(row.RoomA) \o RoomsIn(row.RoomB)) |->
        [room |-> (RoomsIn(row.RoomA) \o RoomsIn(row.RoomB))[j], row |-> row]]

Pairs(rows) == Flatten([k \in 1..Len(rows) |-> PairsOfRow(rows[k])])

Recognized(room) == FindBuilding(room) # None

ValidTimes(row) == StrptimeOk(row.Free_From) /\ StrptimeOk(row.Free_To)

\* the pair is of the room at q of the index, and of this day
PairOf(pair, q, day) ==
    /\ Recognized(pair.room)
    /\ FindBuilding(pair.room) = BuildingAt(q)
    /\ RoomNumber(pair.room, FindBuilding(pair.room)) = RoomAt(q).room_number
    /\ pair.row.Day = day

\* the times of the pairs of a room and a day that pass strptime, in order
TimesOf(pairs, q, day) ==
    LET Mine(pair) == PairOf(pair, q, day) /\ ValidTimes(pair.row)
        mine == SelectSeq(pairs, Mine)
    IN [k \in 1..Len(mine) |->
           <<Strptime(mine[k].row.Free_From), Strptime(mine[k].row.Free_To)>>]

\* a list of the index as find_empty_rooms leaves it: sorted if of a day of self.days
AsLeft(booked, day) == IF day \in Weekdays THEN SortByStart(booked) ELSE booked

\* C13: after the first find_empty_rooms no error has come of a record whose
\* start or end time fails strptime, the list of every room and day holds the
\* times of exactly the pairs whose times pass strptime, and every pair of a
\* recognized room with such times has its room and day in the index.
C13_BadTimeSkipped ==
    FirstCall =>
        /\ room_schedule # EmptyDict => raised = "none"
        /\ \A q \in IndexedRooms : \A day \in DOMAIN RoomAt(q).schedule :
              BookedOf(q, day) = AsLeft(TimesOf(Pairs(df), q, day), day)
        /\ \A k \in 1..Len(Pairs(df)) :
              (Recognized(Pairs(df)[k].room) /\ ValidTimes(Pairs(df)[k].row)) =>
                  \E q \in IndexedRooms :
                      /\ PairOf(Pairs(df)[k], q, Pairs(df)[k].row.Day)
                      /\ BookedOf(q, Pairs(df)[k].row.Day) # <<>>

\* C13 witness: a pair of a recognized room whose end time fails strptime, with
\* a pair before it and a pair after it that are indexed
C13_Witness ==
    /\ FirstCall /\ raised = "none"
    /\ \E i, j, k \in 1..Len(Pairs(df)) :
          /\ i < j /\ j < k
          /\ \A m \in {i, j, k} : Recognized(Pairs(df)[m].room)
          /\ ValidTimes(Pairs(df)[i].row) /\ ValidTimes(Pairs(df)[k].row)
          /\ StrptimeOk(Pairs(df)[j].row.Free_From)
          /\ ~StrptimeOk(Pairs(df)[j].row.Free_To)
          /\ \E q \in IndexedRooms :
                PairOf(Pairs(df)[j], q, Pairs(df)[j].row.Day)
                /\ BookedOf(q, Pairs(df)[j].row.Day) = <<>>

\* a room column as it is when its room is of no recognized building: skipped
KeepRecognized(room) ==
    IF room # None /\ Recognized(Strip(room)) THEN room ELSE None

\* the frame without the rooms of no recognized building
OnlyRecognized(rows) ==
    [k \in 1..Len(rows) |->
        [rows[k] EXCEPT !.RoomA = KeepRecognized(@), !.RoomB = KeepRecognized(@)]]

\* C14: after the first find_empty_rooms the index is the one the frame gives
\* without its rooms of no recognized building (the other room of the record
\* and the other records are indexed all the same), no error has come of
\* them, and no row of the output is of such a room.
C14_UnrecognizedSkipped ==
    FirstCall =>
        /\ room_schedule = SortedIndex(extract_room_schedule(EmptyDict, OnlyRecognized(df)))
        /\ room_schedule # EmptyDict => raised = "none"
        /\ \A k \in 1..Len(Pairs(df)) :
              ~Recognized(Pairs(df)[k].room) =>
                  \A m \in 1..Len(ResultRows) :
                      /\ ResultRows[m].Room_Number # Pairs(df)[k].room
                      /\ ResultRows[m].Building \o ResultRows[m].Room_Number
                             # Pairs(df)[k].room

\* C14 witness: two records or more whose RoomA is recognized and whose RoomB
\* is not, indexed, with rows in the output
C14_Witness ==
    /\ FirstCall /\ raised = "none" /\ Len(df) >= 2
    /\ \A k \in 1..Len(df) :
          /\ df[k].RoomA # None /\ Recognized(df[k].RoomA)
          /\ df[k].RoomB # None /\ ~Recognized(df[k].RoomB)
    /\ \E q \in IndexedRooms : \E day \in Weekdays : BookedOf(q, day) # <<>>
    /\ ResultRows # <<>>

\* C15 as claimed: for every room of the index, every day of the week and
\* every day key of the room's schedule has its free intervals computed from
\* its booked list and emitted.
C15_EveryIndexedDay ==
    HasResult =>
        \A q \in IndexedRooms : \A day \in Weekdays \cup DOMAIN RoomAt(q).schedule :
            EmittedOf(q, day) = FreeTimes(SortByStart(BookedOf(q, day)))

\* a text of four digits
IsHHMM(t) == Len(t) = 4 /\ \A i \in 1..4 : IsDigit(t[i])

SameRoomAndDay(a, b) ==
    a.Building = b.Building /\ a.Room_Number = b.Room_Number /\ a.Day = b.Day

\* C16: the rows of the file written by save_empty_rooms_to_csv have their
\* times as four digits HHMM, are in ascending order of (Building, Room Number,
\* Day, Free From, Free To), and the rows of one building, room and day are in
\* chronological order of their Free From.
C16_SortedRows ==
    csv # Nothing =>
        /\ \A i \in 1..Len(csv[1].rows) :
              IsHHMM(csv[1].rows[i].Free_From) /\ IsHHMM(csv[1].rows[i].Free_To)
        /\ \A i, j \in 1..Len(csv[1].rows) :
              i < j =>
                  /\ ~KeyLt(RowKey(csv[1].rows[j]), RowKey(csv[1].rows[i]))
                  /\ SameRoomAndDay(csv[1].rows[i], csv[1].rows[j]) =>
                        FromHHMM(csv[1].rows[i].Free_From)
                            <= FromHHMM(csv[1].rows[j].Free_From)

\* C16 witness: a file with rows of two buildings, with two rows of one room and day
\* and with the days in another order than that of self.days
C16_Witness ==
    /\ csv # Nothing
    /\ \E i, j \in 1..Len(csv[1].rows) :
          csv[1].rows[i].Building # csv[1].rows[j].Building
    /\ \E i, j \in 1..Len(csv[1].rows) :
          /\ i < j /\ SameRoomAndDay(csv[1].rows[i], csv[1].rows[j])
          /\ FromHHMM(csv[1].rows[i].Free_From) < FromHHMM(csv[1].rows[j].Free_From)
    /\ \E i, j \in 1..Len(csv[1].rows) :
          i < j /\ csv[1].rows[i].Day = days[5] /\ csv[1].rows[j].Day = days[1]

\* the room lists of the descriptions
RoomLists ==
    EntryLists \cup {PlainRooms, <<RoomSource[1], RoomSource[3]>>, <<RoomNameTwice>>}

\* the room list of the description has one or two entries, none of them an
\* exclusion keyword
PairLists ==
    {es \in RoomLists :
        Len(es) \in 1..2 /\ \A j \in 1..Len(es) : es[j] \notin Range(exclusion_keywords)}

HasRoomPair(d) == d # NaN /\ \E es \in PairLists : d.suffix = Suffix(es)

RoomEntries(d) == CHOOSE es \in PairLists : d.suffix = Suffix(es)

\* the records a description with such a room list must expand to
ExpectedOf(d) ==
    [k \in 1..Len(d.segs) |->
        [Day |-> d.segs[k].day, Free_From |-> d.segs[k].start_time,
         Free_To |-> d.segs[k].end_time, RoomA |-> RoomEntries(d)[1],
         RoomB |-> IF Len(RoomEntries(d)) = 2 THEN RoomEntries(d)[2] ELSE None]]

\* C17: rows whose room list has one or two rooms, none excluded, are expanded
\* without an error to one record per day/time segment, in the order of the
\* segments, each with the day, start and end of its segment and all with
\* the rooms of the room list as RoomA and RoomB.
C17_OneRecordPerSegment ==
    (Expanded /\ \A i \in 1..Len(xlsx) : HasRoomPair(xlsx[i])) =>
        /\ scheduler /\ raised = "none"
        /\ df = Flatten([i \in 1..Len(xlsx) |-> ExpectedOf(xlsx[i])])

\* C17 witness: a row of three different segments and two rooms, expanded
C17_Witness ==
    /\ Expanded /\ scheduler /\ Len(df) >= 3
    /\ \A i \in 1..Len(xlsx) : HasRoomPair(xlsx[i])
    /\ \E i \in 1..Len(xlsx) :
          Len(xlsx[i].segs) = 3 /\ Len(RoomEntries(xlsx[i])) = 2
    /\ df[1] # df[2] /\ df[2] # df[3] /\ df[1].RoomB # None

\* C18 as claimed: for every room and day, each free interval emitted ends no
\* later than the next one begins, whatever the booked intervals are, those
\* whose end is before their start included.
C18_FreeIncreasing ==
    HasResult =>
        \A q \in IndexedRooms : \A day \in Weekdays :
            \A k \in 1..(Len(EmittedOf(q, day)) - 1) :
                EmittedOf(q, day)[k][2] <= EmittedOf(q, day)[k + 1][1]

\* C19 as claimed: the loop of find_empty_rooms leaves the index as
\* extract_room_schedule built it, every booked list with the same elements in
\* the order they were appended.
C19_IndexOnlyRead ==
    (scheduler /\ HasResult /\ calls = 1) =>
        room_schedule = extract_room_schedule(EmptyDict, df)

\* C20 as claimed: after any number of calls of find_empty_rooms or
\* save_empty_rooms_to_csv on the same RoomScheduler the index holds, for
\* every room and day, one booked interval per (room, record) pair of the
\* frame, as after the first call.
C20_RebuiltEachCall ==
    (scheduler /\ HasResult) =>
        \A q \in IndexedRooms : \A day \in DOMAIN RoomAt(q).schedule :
            Len(BookedOf(q, day)) = Len(TimesOf(Pairs(df), q, day))

\* the recognized prefixes a room string starts with
PrefixesOf(room) == {b \in Range(buildings) : StartsWith(room, b)}

\* the longest of them
LongestPrefix(room) ==
    CHOOSE b \in PrefixesOf(room) : \A c \in PrefixesOf(room) : Len(c) <= Len(b)

\* what follows the prefix in the room string, trimmed
Remainder(room, prefix) == Strip(SubSeq(room, Len(prefix) + 1, Len(room)))

\* C21 as claimed: every room string of the frame that starts with a recognized
\* prefix is in the index under the longest recognized prefix it starts with,
\* its room number being what follows that prefix in the string, trimmed.
C21_PrefixAndRemainder ==
    FirstCall =>
        \A k \in 1..Len(Pairs(df)) :
            PrefixesOf(Pairs(df)[k].room) # {} =>
                \E q \in IndexedRooms :
                    /\ BuildingAt(q) = LongestPrefix(Pairs(df)[k].room)
                    /\ RoomAt(q).room_number =
                           Remainder(Pairs(df)[k].room, LongestPrefix(Pairs(df)[k].room))

\* every pair of the frame that is of the room at q has times that fail strptime
EveryRecordFails(q) ==
    /\ \E k \in 1..Len(Pairs(df)) : PairOf(Pairs(df)[k], q, Pairs(df)[k].row.Day)
    /\ \A k \in 1..Len(Pairs(df)) :
          PairOf(Pairs(df)[k], q, Pairs(df)[k].row.Day) => ~ValidTimes(Pairs(df)[k].row)

\* the row of the whole window for the room at q and a day
FullWindowRow(q, day) ==
    [Building |-> BuildingAt(q), Room_Number |-> RoomAt(q).room_number,
     Day |-> day, Free_From |-> FullWindowFrom, Free_To |-> FullWindowTo]

\* the rows of the output that are of the room at q
RowsOfRoom(q) ==
    {m \in 1..Len(ResultRows) :
        /\ ResultRows[m].Building = BuildingAt(q)
        /\ ResultRows[m].Room_Number = RoomAt(q).room_number}

\* C22: after the first find_empty_rooms a pair of a recognized room whose
\* times fail strptime has its building, room and day in the index, and a room
\* whose every record fails has only empty booked lists and exactly the six
\* rows 0930-2200 of the six weekdays in the output.
C22_KeysBeforeParse ==
    FirstCall =>
        /\ \A k \in 1..Len(Pairs(df)) :
              (Recognized(Pairs(df)[k].room) /\ ~ValidTimes(Pairs(df)[k].row)) =>
                  \E q \in IndexedRooms :
                      /\ PairOf(Pairs(df)[k], q, Pairs(df)[k].row.Day)
                      /\ Pairs(df)[k].row.Day \in DOMAIN RoomAt(q).schedule
        /\ \A q \in IndexedRooms :
              EveryRecordFails(q) =>
                  /\ \A day \in DOMAIN RoomAt(q).schedule : BookedOf(q, day) = <<>>
                  /\ {ResultRows[m] : m \in RowsOfRoom(q)}
                         = {FullWindowRow(q, day) : day \in Weekdays}
                  /\ Cardinality(RowsOfRoom(q)) = Len(days)

\* C22 witness: a room of the index whose only record ends at 10:60, with its
\* day key and six rows in the output
C22_Witness ==
    /\ FirstCall /\ raised = "none"
    /\ \E q \in IndexedRooms :
          /\ EveryRecordFails(q)
          /\ Tue \in DOMAIN RoomAt(q).schedule
          /\ Cardinality(RowsOfRoom(q)) = 6

(***************************************************************************)
(* EmptyRoomSchedule (specification SpecClassroom).                        *)
(***************************************************************************)
\* the table loaded at construction
Loaded == load_classroom_file(csv[1])

LastCall == filter_calls[Len(filter_calls)]

\* C23: _original is the table loaded at construction whatever calls of
\* filter_classrooms and restore_classrooms were made, and after a call of
\* restore_classrooms df is equal to that table.
C23_RestoreOriginal ==
    /\ original = Loaded
    /\ (filter_calls # <<>> /\ LastCall.op = "restore") => schedule_df = Loaded

\* C23 witness: two filters, after which no row was left of a table with
\* rows, and then a restore
C23_Witness ==
    /\ Len(filter_calls) = 3
    /\ filter_calls[1].op = "filter" /\ filter_calls[2].op = "filter"
    /\ filter_calls[3].op = "restore"
    /\ Select(Loaded, filter_calls[1]) # <<>>
    /\ Select(Select(Loaded, filter_calls[1]), filter_calls[2]) = <<>>
    /\ schedule_df # <<>>

\* the places of the restore calls in the log
Restores(log) == {i \in 1..Len(log) : log[i].op = "restore"}

\* the filter calls made since the last restore (or since construction)
SinceRestore(log) ==
    IF Restores(log) = {} THEN log
    ELSE SubSeq(log, SetMax(Restores(log)) + 1, Len(log))

\* the row has the day asked for, is free from from_time or earlier and to
\* to_time or later and, when a building is given, is of that building
Satisfies(row, call) ==
    /\ row.Day = call.day
    /\ row.Free_From <= call.from_time /\ row.Free_To >= call.to_time
    /\ call.building \in {None, <<>>} \/ row.Building = call.building

SatisfiesAll(row, log) == \A i \in 1..Len(log) : Satisfies(row, log[i])

\* C24: df holds exactly the rows of the table that satisfy every
\* filter_classrooms call made since the last restore_classrooms (a building
\* that is None or '' is no building to filter by), in the order of the table.
C24_FilterCumulative ==
    schedule_df =
        SelectSeq(Loaded, LAMBDA row : SatisfiesAll(row, SinceRestore(filter_calls)))

\* C24 witness: two filters in a row, the second of which alone keeps a row
\* that the first had dropped, with a row left
C24_Witness ==
    /\ Len(SinceRestore(filter_calls)) >= 2
    /\ schedule_df # <<>>
    /\ \E row \in Range(Select(Loaded, LastCall)) : row \notin Range(schedule_df)

(***************************************************************************)
(* CarouselComponent (specification SpecCarousel).                         *)
(***************************************************************************)
\* every item of the carousel is an instance of the recorded type
AllOfType ==
    \A i \in 1..Len(items) : type # Nothing /\ IsInstance(items[i], type[1])

\* the call a step has just made, if it was a call of add_item
JustCalled == carousel_calls'[Len(carousel_calls')]

\* what a call of add_item does: refused with AssertionError, items and type
\* unchanged, when there are items and the new one is not of the recorded
\* type; else the item is appended, and its type recorded if there was no item
AddItemStep ==
    (carousel_calls' # carousel_calls /\ JustCalled.op = "add") =>
        IF items # <<>> /\ ~IsInstance(JustCalled.item, type[1])
        THEN JustCalled.raised = "AssertionError" /\ items' = items /\ type' = type
        ELSE /\ JustCalled.raised = "none"
             /\ items' = Append(items, JustCalled.item)
             /\ type' = IF items = <<>> THEN Some(JustCalled.item.cls) ELSE type

\* C25: from an empty carousel on, every item is an instance of the recorded
\* type after any calls of add_item and remove_item; an add_item of an item
\* not of that type raises AssertionError and changes neither items nor type;
\* and an add_item on a carousel that is empty (again) is accepted whatever
\* the type of the item, which becomes the recorded type.
C25_SameType == []AllOfType /\ [][AddItemStep]_vars

\* C25 witness: an item added, one of another type refused, the first item
\* removed, and then the item of the other type accepted
C25_Witness ==
    /\ Len(carousel_calls) = 4
    /\ carousel_calls[1].op = "add" /\ carousel_calls[1].raised = "none"
    /\ carousel_calls[2].op = "add" /\ carousel_calls[2].raised = "AssertionError"
    /\ carousel_calls[3].op = "remove" /\ carousel_calls[3].raised = "none"
    /\ carousel_calls[4] = [carousel_calls[2] EXCEPT !.raised = "none"]
    /\ items = <<carousel_calls[4].item>>
    /\ type = Some(carousel_calls[4].item.cls)
    /\ type # Some(carousel_calls[1].item.cls)

====
